---- MODULE Spec2Model ----
(***************************************************************************)
(* Model of the HITL review backend (server.js): verdict resolution over   *)
(* the Review Queue (DynamoDB), the Decision Log (S3) and the Feedback     *)
(* table, the enriched pending listing, and the paginated partition scan   *)
(* shared by the metrics and history endpoints.                            *)
(***************************************************************************)
EXTENDS Integers, Sequences, FiniteSets, TLC

VARIABLES
    queue,       \* Review Queue Store: id -> QueueItem (DOMAIN = ids that exist)
    logs,        \* Decision Log Store: key -> stored object
    feedback,    \* Feedback Store: set of FeedbackEntry, one per (pk, sk)
    now,         \* wall clock at the latest new Date()
    started,     \* number of verdict requests received so far
    pc,          \* per request slot: position in the verdict handler
    req,         \* per request slot: { id, verdict, actor, notes } of the call
    ts,          \* per request slot: const ts = new Date().toISOString()
    item,        \* per request slot: getResp.Item
    doc,         \* per request slot: the parsed and patched log document
    s3Location,  \* per request slot: let s3Location
    resp,        \* per request slot: the response sent
    listPc,      \* pending listing: position in the handler
    items,       \* pending listing: data.Items of the scan
    enriched,    \* pending listing: the promises of items.map, by position
    settled,     \* pending listing: the positions in the order they settled
    listResp,    \* pending listing: the response sent
    records,      \* Decision Log Store: the record objects, in listing order
    scanPc,      \* metrics / history: position in the handler
    scanReq,     \* metrics / history: the endpoint and its query
    prefixes,    \* metrics / history: the day partitions to scan
    prefixIdx,   \* metrics / history: the partition of the for loop
    continuationToken, \* metrics / history: 0 is undefined
    page,        \* metrics / history: listResp of the current page
    objIdx,      \* metrics / history: position in listResp.Contents
    visited,     \* metrics / history: keys the inner loop has run on
    total,       \* metrics.total
    elapsedSum,  \* let elapsedSum
    phiDetected, \* metrics.phiDetected
    dailyCounts, \* const dailyCounts: date -> count
    history,     \* the history rows (the key of each)
    scanResp,    \* metrics / history: the response sent
    statsPc,     \* stats: position in the handler
    utcOffset,   \* stats: the server's local zone, as an offset from UTC
    scanned,     \* stats: let items, the items of the pages read so far
    lastEval,    \* stats: let lastEval; 0 is undefined
    statsResp,   \* stats: the response sent
    display      \* per call site: the display fields it resolved

resolveVars == <<queue, logs, feedback, now, started, pc, req, ts, item, doc,
                 s3Location, resp>>

pendingVars == <<listPc, items, enriched, settled, listResp>>

scanVars == <<records, scanPc, scanReq, prefixes, prefixIdx, continuationToken,
              page, objIdx, visited, total, elapsedSum, phiDetected,
              dailyCounts, history, scanResp>>

statsVars == <<statsPc, utcOffset, scanned, lastEval, statsResp>>

displayVars == <<display>>

----------------------------------------------------------------------------
\* Bounds of the model

\* largest clock reading; new Date() has millisecond resolution, so two
\* requests may read the same instant
MaxClock == 1
\* number of verdict requests served in one behaviour
MaxResolves == 2

\* request slots served concurrently
Slots == {"r1", "r2"}

\* number of record objects in the Decision Log records
MaxObjects == 3
\* the UTC day of the metrics request; day partitions are 0..Today
Today == 1

----------------------------------------------------------------------------
\* Values

\* a JavaScript undefined / absent attribute
Undefined == "<undefined>"

\* Date.prototype.toISOString of the clock readings
IsoStrings == <<"T0", "T1", "T2", "T3", "T4", "T5">>

toISOString(t) == IsoStrings[t + 1]

QueueIds == {"q1", "q2", "q3"}

\* req.body.verdict: the two tokens, some other token, or nothing
Verdicts == {"allow", "block", "maybe", Undefined}

\* req.body: a verdict with a named actor and notes, or with neither
Bodies ==
    {[verdict |-> v, actor |-> "alice", notes |-> "looks fine"] :
        v \in {"allow", "maybe"}}
    \cup {[verdict |-> v, actor |-> Undefined, notes |-> Undefined] :
        v \in {"block", Undefined}}

NoReq == [id |-> Undefined, verdict |-> Undefined, actor |-> Undefined,
          notes |-> Undefined]

\* let s3Location = null
NullLocation == [bucket |-> Undefined, key |-> Undefined]

\* a hitl sub-object that is not there
NoHitl == [status |-> Undefined, actor |-> Undefined, verdict |-> Undefined,
           notes |-> Undefined, ts |-> Undefined]

\* a queue sub-object that is not there
NoQueueDoc == [status |-> Undefined, resolved_ts |-> Undefined]

\* a JSON value that is a string (its text, as a sequence of pieces), an
\* array of strings, or absent
JsUndefined == [t |-> "undefined", v |-> <<>>]
JsString(pieces) == [t |-> "string", v |-> pieces]
JsArray(elems) == [t |-> "array", v |-> elems]

\* a JSON number, or no number
NotANumber == [t |-> "undefined", n |-> 0]
JsNumber(n) == [t |-> "number", n |-> n]

\* a DecisionRecord as written by the inference pipeline; decision_agent is
\* present or not, with its own hitl copy or not
BaseDoc(decision, daPresent, daHitl, queueDoc) ==
    [decision |-> decision,
     summary |-> [classification |-> "phishing", confidence |-> JsNumber(87),
                  has_phi |-> TRUE, reasoning |-> JsUndefined],
     compact |-> [subject |-> "Invoice (as received)", to |-> "it@clinic.org",
                  from_addr |-> <<"eve", "@", "evil.example">>,
                  body_preview |-> JsString(<<"Dear customer">>),
                  body |-> JsUndefined],
     body_preview |-> JsUndefined,
     content |-> [present |-> FALSE, notes |-> <<>>],
     reasoning |-> JsUndefined,
     explanation |-> JsUndefined,
     decision_reasons |-> JsArray(<<"new sender", "urgent tone">>),
     hitl |-> NoHitl,
     decision_agent |-> [present |-> daPresent, hitl |-> daHitl,
                         reasoning |-> JsUndefined,
                         explanation |-> IF daPresent
                                         THEN JsString(<<"needs review">>)
                                         ELSE JsUndefined,
                         reasons |-> JsUndefined,
                         signals |-> [from_addr |-> <<>>,
                                      to_addr |-> Undefined]],
     queue |-> queueDoc]

PendingHitl == [status |-> "pending", actor |-> Undefined, verdict |-> Undefined,
                notes |-> Undefined, ts |-> Undefined]

NoDoc == BaseDoc(Undefined, FALSE, NoHitl, NoQueueDoc)

\* stored objects: a JSON DecisionRecord, a body that is not JSON, no object
JsonObject(d) == [kind |-> "json", doc |-> d]
CorruptObject == [kind |-> "corrupt", doc |-> NoDoc]
NoObject == [kind |-> "missing", doc |-> NoDoc]

LogKeys == {"k1"}

\* the objects the pipeline may have left under a log key
InitialObjects ==
    {JsonObject(BaseDoc("IT_REVIEW", TRUE, PendingHitl,
                        [status |-> "pending", resolved_ts |-> Undefined])),
     JsonObject(BaseDoc("QUARANTINE", FALSE, NoHitl, NoQueueDoc)),
     CorruptObject}

\* a pending QueueItem as created by the inference pipeline
PendingItem(id, fromAddr, fromDomain, bucket, key) ==
    [id |-> id, status |-> "pending", verdict |-> Undefined, actor |-> Undefined,
     notes |-> Undefined, resolved_ts |-> Undefined, subject |-> "Invoice",
     decision |-> "IT_REVIEW", created_ts |-> "T0",
     from_addr |-> fromAddr, from_domain |-> fromDomain,
     log_bucket |-> bucket, log_key |-> key]

NoItem == PendingItem(Undefined, <<>>, Undefined, Undefined, Undefined)

\* an address is its sequence of "@"-separated parts, "@" included
InitialQueue ==
    [i \in {"q1", "q2"} |->
        IF i = "q1"
        THEN PendingItem("q1", <<"eve", "@", "evil.example">>, "evil.example",
                         "decisions", "k1")
        ELSE PendingItem("q2", <<"bob", "@", "clinic.org">>, Undefined,
                         Undefined, Undefined)]

NoResp == [status |-> 0, success |-> FALSE, error |-> Undefined,
           details |-> Undefined, s3Updated |-> FALSE,
           s3Location |-> NullLocation]

----------------------------------------------------------------------------
\* Verdict resolution: POST /api/hitl/:id/verdict

\* the check without its includes() half: any non-empty token passes
ValidVerdictTruthyOnly(v) == v # Undefined

\* !verdict || !["allow", "block"].includes(verdict)
ValidVerdict(v) == v # Undefined /\ v \in {"allow", "block"}

\* const actorName = actor || "unknown"
actorName(a) == IF a = Undefined THEN "unknown" ELSE a

\* notes || ""
notesOrEmpty(n) == IF n = Undefined THEN "" ELSE n

\* an update expression that sets the status and the timestamp only
UpdateExpressionStatusOnly(it, r) ==
    [it EXCEPT !.status = "resolved", !.resolved_ts = ts[r]]

\* SET #status = :resolved, verdict = :verdict, actor = :actor,
\*     notes = :notes, resolved_ts = :ts
UpdateExpression(it, r) ==
    [it EXCEPT !.status = "resolved",
               !.verdict = req[r].verdict,
               !.actor = actorName(req[r].actor),
               !.notes = notesOrEmpty(req[r].notes),
               !.resolved_ts = ts[r]]

\* dynamo.update is an upsert: it creates the item when the key is new
DynamoUpdate(table, id, r) ==
    IF id \in DOMAIN table
    THEN [table EXCEPT ![id] = UpdateExpression(table[id], r)]
    ELSE [i \in DOMAIN table \cup {id} |->
            IF i = id THEN UpdateExpression([NoItem EXCEPT !.id = id], r)
            ELSE table[i]]

\* item.log_bucket && item.log_key
HasLogRef(it) == it.log_bucket # Undefined /\ it.log_key # Undefined

\* a hitl object that takes actor and notes as they were sent
newHitlAsSent(r) ==
    [status |-> "resolved", actor |-> req[r].actor,
     verdict |-> req[r].verdict, notes |-> req[r].notes, ts |-> ts[r]]

\* const newHitl = { status, actor: actorName, verdict, notes: notes || "",
\* ts }
newHitl(r) ==
    [status |-> "resolved", actor |-> actorName(req[r].actor),
     verdict |-> req[r].verdict, notes |-> notesOrEmpty(req[r].notes),
     ts |-> ts[r]]

\* a patch that also stamps the decision of the record
PatchDocStampsDecision(d, r) ==
    [d EXCEPT !.hitl = newHitl(r),
              !.decision = "RESOLVED",
              !.queue = [status |-> "resolved", resolved_ts |-> ts[r]]]

\* a patch that leaves the decision_agent copy as it was
PatchDocTopOnly(d, r) ==
    [d EXCEPT !.hitl = newHitl(r),
              !.queue = [status |-> "resolved", resolved_ts |-> ts[r]]]

\* doc.hitl = newHitl; the decision_agent copy if there is one; doc.queue
PatchDoc(d, r) ==
    [d EXCEPT !.hitl = newHitl(r),
              !.decision_agent.hitl =
                  IF d.decision_agent.present /\ d.decision_agent.hitl # NoHitl
                  THEN newHitl(r) ELSE @,
              !.queue = [status |-> "resolved", resolved_ts |-> ts[r]]]

\* fromAddr.includes("@")
includesAt(addr) == \E i \in 1..Len(addr) : addr[i] = "@"

\* fromAddr.split("@")[1], for an address that includes "@"
splitAt1(addr) ==
    LET first == CHOOSE i \in 1..Len(addr) :
                    addr[i] = "@" /\ \A j \in 1..(i - 1) : addr[j] # "@"
    IN IF first < Len(addr) /\ addr[first + 1] # "@"
       THEN addr[first + 1] ELSE ""

fromDomain(it) ==
    IF it.from_domain # Undefined THEN it.from_domain
    ELSE IF includesAt(it.from_addr) THEN splitAt1(it.from_addr)
    ELSE "unknown"

feedbackItem(it, verdict, actor, t) ==
    [pk |-> <<"domain#", fromDomain(it)>>,
     sk |-> <<"verdict#", t>>,
     verdict |-> verdict,
     actor |-> actor,
     run_id |-> IF it.id # Undefined THEN it.id ELSE "",
     from_addr |-> it.from_addr,
     from_domain |-> fromDomain(it),
     created_ts |-> t,
     trust_tier |-> IF verdict = "allow" THEN "trusted" ELSE "blocked",
     log_bucket |-> it.log_bucket,
     log_key |-> it.log_key]

\* dynamo.put replaces the entry stored under the same (pk, sk)
DynamoPut(table, e) ==
    {x \in table : ~(x.pk = e.pk /\ x.sk = e.sk)} \cup {e}

ValidationFailure ==
    [NoResp EXCEPT !.status = 400,
                   !.error = "verdict must be \"allow\" or \"block\""]

NotFound == [NoResp EXCEPT !.status = 404, !.error = "Queue item not found"]

ServerError(message) ==
    [NoResp EXCEPT !.status = 500, !.error = "Failed to apply verdict",
                   !.details = message]

Resolved(loc) ==
    [NoResp EXCEPT !.status = 200, !.success = TRUE,
                   !.s3Updated = (loc # NullLocation), !.s3Location = loc]

\* a catch block that compensates: it puts the queue item back to pending
CatchRollback(r, message) ==
    /\ resp' = [resp EXCEPT ![r] = ServerError(message)]
    /\ pc' = [pc EXCEPT ![r] = "done"]
    /\ queue' = IF req[r].id \in DOMAIN queue
                THEN [queue EXCEPT ![req[r].id].status = "pending"]
                ELSE queue
    /\ UNCHANGED <<logs, feedback>>

\* the handler's single catch block: log the error, answer 500; no store call
Catch(r, message) ==
    /\ resp' = [resp EXCEPT ![r] = ServerError(message)]
    /\ pc' = [pc EXCEPT ![r] = "done"]
    /\ UNCHANGED <<queue, logs, feedback>>

\* a request arrives at clock reading t; the verdict is validated before the
\* try block
Receive(r) ==
    /\ pc[r] = "idle"
    /\ started < MaxResolves
    /\ started' = started + 1
    /\ \E i \in QueueIds, b \in Bodies, t \in {now, now + 1} :
         /\ t <= MaxClock
         /\ now' = t
         /\ req' = [req EXCEPT ![r] = [id |-> i, verdict |-> b.verdict,
                                       actor |-> b.actor, notes |-> b.notes]]
         /\ IF ValidVerdict(b.verdict)
            THEN /\ ts' = [ts EXCEPT ![r] = toISOString(t)]
                 /\ pc' = [pc EXCEPT ![r] = "get"]
                 /\ resp' = resp
            ELSE /\ ts' = ts
                 /\ pc' = [pc EXCEPT ![r] = "done"]
                 /\ resp' = [resp EXCEPT ![r] = ValidationFailure]
    /\ UNCHANGED <<queue, logs, feedback, item, doc, s3Location>>
    /\ UNCHANGED <<pendingVars, scanVars, statsVars, displayVars>>

\* dynamo.get: getResp.Item is undefined when the key has no item
dynamoGet(table, id) == IF id \in DOMAIN table THEN table[id] ELSE NoItem

\* the handler without its not-found check
ItemMissingNever(it) == FALSE

\* if (!item)
ItemMissing(it) == it = NoItem

\* step 1: dynamo.get of the queue item; not found answers 404
QueueGet(r) ==
    /\ pc[r] = "get"
    /\ \/ LET it == dynamoGet(queue, req[r].id) IN
          IF ItemMissing(it)
          THEN /\ resp' = [resp EXCEPT ![r] = NotFound]
               /\ pc' = [pc EXCEPT ![r] = "done"]
               /\ UNCHANGED <<item, queue, logs, feedback>>
          ELSE /\ item' = [item EXCEPT ![r] = it]
               /\ pc' = [pc EXCEPT ![r] = "update"]
               /\ UNCHANGED <<resp, queue, logs, feedback>>
       \/ /\ Catch(r, "queue read failed")
          /\ UNCHANGED item
    /\ UNCHANGED <<now, started, req, ts, doc, s3Location>>
    /\ UNCHANGED <<pendingVars, scanVars, statsVars, displayVars>>

\* a step 2 isolated from the later steps: its failure is logged and the
\* handler goes on to the log patch
QueueUpdateLenient(r) ==
    /\ pc[r] = "update"
    /\ \/ queue' = DynamoUpdate(queue, req[r].id, r)
       \/ UNCHANGED queue
    /\ pc' = [pc EXCEPT ![r] = IF HasLogRef(item[r]) THEN "s3get" ELSE "learn"]
    /\ UNCHANGED <<resp, logs, feedback>>
    /\ UNCHANGED <<now, started, req, ts, item, doc, s3Location>>
    /\ UNCHANGED <<pendingVars, scanVars, statsVars, displayVars>>

\* step 2: dynamo.update marks the item resolved
QueueUpdate(r) ==
    /\ pc[r] = "update"
    /\ \/ /\ queue' = DynamoUpdate(queue, req[r].id, r)
          /\ pc' = [pc EXCEPT ![r] =
                       IF HasLogRef(item[r]) THEN "s3get" ELSE "learn"]
          /\ UNCHANGED <<resp, logs, feedback>>
       \/ Catch(r, "queue update failed")
    /\ UNCHANGED <<now, started, req, ts, item, doc, s3Location>>
    /\ UNCHANGED <<pendingVars, scanVars, statsVars, displayVars>>

\* step 3a: s3.getObject, JSON.parse and the in-memory patch of the document
LogGet(r) ==
    /\ pc[r] = "s3get"
    /\ LET obj == logs[item[r].log_key] IN
       \/ /\ obj.kind = "json"
          /\ doc' = [doc EXCEPT ![r] = PatchDoc(obj.doc, r)]
          /\ pc' = [pc EXCEPT ![r] = "s3put"]
          /\ UNCHANGED <<resp, queue, logs, feedback>>
       \/ /\ obj.kind = "corrupt"
          /\ Catch(r, "log parse failed")
          /\ UNCHANGED doc
       \/ /\ Catch(r, "log read failed")
          /\ UNCHANGED doc
    /\ UNCHANGED <<now, started, req, ts, item, s3Location>>
    /\ UNCHANGED <<pendingVars, scanVars, statsVars, displayVars>>

\* step 3b: s3.putObject writes the whole document back
LogPut(r) ==
    /\ pc[r] = "s3put"
    /\ \/ /\ logs' = [logs EXCEPT ![item[r].log_key] = JsonObject(doc[r])]
          /\ s3Location' = [s3Location EXCEPT ![r] =
                               [bucket |-> item[r].log_bucket,
                                key |-> item[r].log_key]]
          /\ pc' = [pc EXCEPT ![r] = "learn"]
          /\ UNCHANGED <<resp, queue, feedback>>
       \/ /\ Catch(r, "log write failed")
          /\ UNCHANGED s3Location
    /\ UNCHANGED <<now, started, req, ts, item, doc>>
    /\ UNCHANGED <<pendingVars, scanVars, statsVars, displayVars>>

\* applyLearningFromVerdict: the put (written), or a failure of it, which the
\* function logs and swallows
applyLearningFromVerdict(it, verdict, actor, t, written) ==
    feedback' = IF written
                THEN DynamoPut(feedback, feedbackItem(it, verdict, actor, t))
                ELSE feedback

\* a learning hook without its try/catch: a failed put reaches the handler's
\* catch block
AfterLearningThrows(r, written) ==
    IF written THEN Resolved(s3Location[r])
    ELSE ServerError("feedback write failed")

\* what the handler answers after applyLearningFromVerdict has returned:
\* the function never throws, so the 200 response follows in both cases
AfterLearning(r, written) == Resolved(s3Location[r])

\* step 4 and the 200 response
Learn(r) ==
    /\ pc[r] = "learn"
    /\ \E written \in BOOLEAN :
         /\ applyLearningFromVerdict(item[r], req[r].verdict,
                                     actorName(req[r].actor), ts[r], written)
         /\ resp' = [resp EXCEPT ![r] = AfterLearning(r, written)]
    /\ pc' = [pc EXCEPT ![r] = "done"]
    /\ UNCHANGED <<queue, logs, now, started, req, ts, item, doc, s3Location>>
    /\ UNCHANGED <<pendingVars, scanVars, statsVars, displayVars>>

\* the response has been delivered; the slot is free for the next request
Finish(r) ==
    /\ pc[r] = "done"
    /\ pc' = [pc EXCEPT ![r] = "idle"]
    /\ req' = [req EXCEPT ![r] = NoReq]
    /\ ts' = [ts EXCEPT ![r] = Undefined]
    /\ item' = [item EXCEPT ![r] = NoItem]
    /\ doc' = [doc EXCEPT ![r] = NoDoc]
    /\ s3Location' = [s3Location EXCEPT ![r] = NullLocation]
    /\ resp' = [resp EXCEPT ![r] = NoResp]
    /\ UNCHANGED <<queue, logs, feedback, now, started>>
    /\ UNCHANGED <<pendingVars, scanVars, statsVars, displayVars>>

\* no verdict request in any slot
SlotsIdle ==
    /\ now = 0
    /\ started = 0
    /\ pc = [r \in Slots |-> "idle"]
    /\ req = [r \in Slots |-> NoReq]
    /\ ts = [r \in Slots |-> Undefined]
    /\ item = [r \in Slots |-> NoItem]
    /\ doc = [r \in Slots |-> NoDoc]
    /\ s3Location = [r \in Slots |-> NullLocation]
    /\ resp = [r \in Slots |-> NoResp]

----------------------------------------------------------------------------
\* Pending listing: GET /api/hitl/pending

\* Limit: 100
ScanLimit == 100

\* the order in which the table scan meets the items
ScanOrder == <<"q1", "q2", "q3">>

\* the first n elements of a sequence
Take(seq, n) == SubSeq(seq, 1, IF Len(seq) < n THEN Len(seq) ELSE n)

\* a scan without its filter expression
SelectEveryItem(seq) == seq

\* the elements of seq that satisfy Test, in order
RECURSIVE SelectPending(_)
SelectPending(seq) ==
    IF seq = <<>> THEN <<>>
    ELSE IF Head(seq).status = "pending"
         THEN <<Head(seq)>> \o SelectPending(Tail(seq))
         ELSE SelectPending(Tail(seq))

RECURSIVE StoredItems(_, _)
StoredItems(table, order) ==
    IF order = <<>> THEN <<>>
    ELSE IF Head(order) \in DOMAIN table
         THEN <<table[Head(order)]>> \o StoredItems(table, Tail(order))
         ELSE StoredItems(table, Tail(order))

\* dynamo.scan with FilterExpression #status = :pending and Limit: one page
\* of at most Limit items read, the filter applied to what was read
dynamoScanPending(table) ==
    SelectPending(Take(StoredItems(table, ScanOrder), ScanLimit))

\* Array.prototype.join("\n\n") of an array of strings
RECURSIVE join(_)
join(elems) ==
    IF elems = <<>> THEN <<>>
    ELSE IF Len(elems) = 1 THEN <<Head(elems)>>
    ELSE <<Head(elems), "\n\n">> \o join(Tail(elems))

\* extractBodyPreview: null is JsUndefined
extractBodyPreview(d) ==
    IF d.compact.body_preview.t = "string" THEN d.compact.body_preview
    ELSE IF d.body_preview.t = "string" THEN d.body_preview
    ELSE IF d.compact.body.t = "string" THEN d.compact.body
    ELSE JsUndefined

\* a lookup that tries the top-level explanation before the decision agent
extractReasoningTopFirst(d) ==
    LET da == d.decision_agent
    IN IF d.reasoning.t = "string" THEN d.reasoning
       ELSE IF d.reasoning.t = "array" THEN JsString(join(d.reasoning.v))
       ELSE IF d.summary.reasoning.t = "string" THEN d.summary.reasoning
       ELSE IF d.explanation.t = "string" THEN d.explanation
       ELSE IF da.present /\ da.reasoning.t = "string" THEN da.reasoning
       ELSE IF da.present /\ da.explanation.t = "string" THEN da.explanation
       ELSE JsUndefined

\* extractReasoning: null is JsUndefined
extractReasoning(d) ==
    LET notes == d.content.notes
        byNote == IF d.content.present /\ Len(notes) > 0
                  THEN IF notes[1].reasoning.t = "array"
                       THEN JsString(join(notes[1].reasoning.v))
                       ELSE IF notes[1].reasoning.t = "string"
                            THEN notes[1].reasoning
                            ELSE JsUndefined
                  ELSE JsUndefined
        da == d.decision_agent
    IN IF byNote # JsUndefined THEN byNote
       ELSE IF d.reasoning.t = "string" THEN d.reasoning
       ELSE IF d.reasoning.t = "array" THEN JsString(join(d.reasoning.v))
       ELSE IF d.summary.reasoning.t = "string" THEN d.summary.reasoning
       ELSE IF da.present /\ da.reasoning.t = "string" THEN da.reasoning
       ELSE IF da.present /\ da.explanation.t = "string" THEN da.explanation
       ELSE IF da.present /\ da.reasons.t = "array"
            THEN JsString(join(da.reasons.v))
       ELSE IF d.explanation.t = "string" THEN d.explanation
       ELSE IF d.decision_reasons.t = "array"
            THEN JsString(join(d.decision_reasons.v))
       ELSE JsUndefined

\* item.log_bucket || METRICS_BUCKET
logBucket(it) ==
    IF it.log_bucket # Undefined THEN it.log_bucket ELSE "decisions"

\* the item returned when the log was fetched and parsed
enrichedItem(it, d) ==
    [id |-> it.id, status |-> it.status, verdict |-> it.verdict,
     actor |-> it.actor, notes |-> it.notes, resolved_ts |-> it.resolved_ts,
     decision |-> it.decision, created_ts |-> it.created_ts,
     from_addr |-> it.from_addr, from_domain |-> it.from_domain,
     log_bucket |-> it.log_bucket, log_key |-> it.log_key,
     sender |-> IF d.compact.from_addr # <<>> THEN d.compact.from_addr
                ELSE IF it.from_addr # <<>> THEN it.from_addr
                ELSE <<"unknown">>,
     recipient |-> IF d.compact.to # Undefined THEN d.compact.to
                   ELSE "unknown",
     subject |-> IF d.compact.subject # Undefined THEN d.compact.subject
                 ELSE IF it.subject # Undefined THEN it.subject
                 ELSE "(no subject)",
     classification |-> IF d.summary.classification # Undefined
                        THEN d.summary.classification ELSE "unknown",
     confidence |-> IF d.summary.confidence.t = "number"
                    THEN d.summary.confidence ELSE NotANumber,
     hitl_status |-> IF d.hitl.status # Undefined THEN d.hitl.status
                     ELSE IF d.decision_agent.present
                             /\ d.decision_agent.hitl.status # Undefined
                          THEN d.decision_agent.hitl.status
                     ELSE it.status,
     body_preview |-> extractBodyPreview(d),
     body_sanitized |-> extractBodyPreview(d),
     sanitizedBody |-> extractBodyPreview(d),
     reasoning |-> extractReasoning(d),
     ai_notes |-> extractReasoning(d),
     log_compact |-> d.compact,
     log_summary |-> d.summary,
     log_decision |-> d.decision,
     log_hitl |-> IF d.hitl # NoHitl THEN d.hitl
                  ELSE IF d.decision_agent.present THEN d.decision_agent.hitl
                  ELSE NoHitl,
     s3_bucket |-> logBucket(it),
     s3_key |-> it.log_key]

\* the item returned from the catch block of the mapper
unenrichedItem(it) ==
    [id |-> it.id, status |-> it.status, verdict |-> it.verdict,
     actor |-> it.actor, notes |-> it.notes, resolved_ts |-> it.resolved_ts,
     decision |-> it.decision, created_ts |-> it.created_ts,
     subject |-> it.subject,
     from_addr |-> it.from_addr, from_domain |-> it.from_domain,
     log_bucket |-> it.log_bucket, log_key |-> it.log_key,
     s3_bucket |-> logBucket(it),
     s3_key |-> it.log_key]

\* a promise of items.map: not settled yet, or fulfilled with a value
Unsettled == [state |-> "pending", value |-> NoItem]
Fulfilled(v) == [state |-> "fulfilled", value |-> v]

NoListResp == [status |-> 0, success |-> FALSE, items |-> <<>>]

\* a catch block that returns an error stub in place of the item
EnrichFailedStub(it) == Fulfilled([id |-> it.id, error |-> "enrichment failed"])

\* the promise of an item whose getObject fails or whose body does not parse:
\* the mapper's catch block returns the item
EnrichFailed(it) == Fulfilled(unenrichedItem(it))

\* the handler starts: one scan page, then one mapper call per item
ListPending ==
    /\ listPc = "idle"
    /\ \/ /\ items' = dynamoScanPending(queue)
          /\ enriched' = [i \in 1..Len(items') |-> Unsettled]
          /\ listPc' = "enriching"
          /\ UNCHANGED <<settled, listResp>>
       \/ /\ listResp' = [status |-> 500, success |-> FALSE, items |-> <<>>]
          /\ listPc' = "done"
          /\ UNCHANGED <<items, enriched, settled>>
    /\ UNCHANGED <<resolveVars, scanVars, statsVars, displayVars>>

\* the mapper call of position i settles; the calls settle in any order
EnrichItem(i) ==
    /\ listPc = "enriching"
    /\ i \in 1..Len(items)
    /\ enriched[i].state = "pending"
    /\ LET it == items[i] IN
       IF it.log_key = Undefined
       THEN enriched' = [enriched EXCEPT ![i] = Fulfilled(it)]
       ELSE \/ /\ it.log_key \in DOMAIN logs
               /\ logs[it.log_key].kind = "json"
               /\ enriched' = [enriched EXCEPT ![i] =
                      Fulfilled(enrichedItem(it, logs[it.log_key].doc))]
            \/ enriched' = [enriched EXCEPT ![i] = EnrichFailed(it)]
    /\ settled' = Append(settled, i)
    /\ UNCHANGED <<listPc, items, listResp>>
    /\ UNCHANGED <<resolveVars, scanVars, statsVars, displayVars>>

\* a handler that pushes each value as its mapper call settles
RespondPendingAsSettled ==
    /\ listPc = "enriching"
    /\ \A i \in 1..Len(items) : enriched[i].state = "fulfilled"
    /\ listResp' = [status |-> 200, success |-> TRUE,
                    items |-> [k \in 1..Len(settled) |->
                                  enriched[settled[k]].value]]
    /\ listPc' = "done"
    /\ UNCHANGED <<items, enriched, settled>>
    /\ UNCHANGED <<resolveVars, scanVars, statsVars, displayVars>>

\* Promise.all has every value: the response carries them by position
RespondPending ==
    /\ listPc = "enriching"
    /\ \A i \in 1..Len(items) : enriched[i].state = "fulfilled"
    /\ listResp' = [status |-> 200, success |-> TRUE,
                    items |-> [i \in 1..Len(items) |-> enriched[i].value]]
    /\ listPc' = "done"
    /\ UNCHANGED <<items, enriched, settled>>
    /\ UNCHANGED <<resolveVars, scanVars, statsVars, displayVars>>

\* the response has been delivered
FinishPending ==
    /\ listPc = "done"
    /\ listPc' = "idle"
    /\ items' = <<>>
    /\ enriched' = <<>>
    /\ settled' = <<>>
    /\ listResp' = NoListResp
    /\ UNCHANGED <<resolveVars, scanVars, statsVars, displayVars>>

ListingIdle ==
    /\ listPc = "idle"
    /\ items = <<>>
    /\ enriched = <<>>
    /\ settled = <<>>
    /\ listResp = NoListResp

----------------------------------------------------------------------------
\* Partition scan: GET /api/metrics and GET /api/history

Days == 0..Today

\* what a record object can be: a key that does not end in ".json"; a record
\* whose timestamp lies in the day of its partition; a record whose
\* timestamp lies outside every day; a record whose timestamp is no date; a
\* body that is not JSON
ObjectKinds == {"other-key", "record", "record-elsewhere", "record-undated",
                "corrupt"}

\* the store returns at most PageSize keys per listing page
PageSize == MaxObjects - 1

\* instants of the calendar: every UTC day has its first millisecond
\* (00:00:00.000) and its last one (23:59:59.999); instant n lies in day
\* n \div TicksPerDay
TicksPerDay == 2

\* dayjs.utc(day).startOf("day") and dayjs.utc(day).endOf("day")
startOf(d) == d * TicksPerDay
endOf(d) == d * TicksPerDay + (TicksPerDay - 1)

\* a timestamp attribute of a record: a string that reads as an instant, a
\* string that is no date, or nothing
Instant(n) == [kind |-> "instant", at |-> n]
GarbageTs == [kind |-> "garbage", at |-> 0]
NoTs == [kind |-> "undefined", at |-> 0]

\* the object the pipeline stores under a partition for each kind: its
\* timestamp attributes, the LastModified of the listing and elapsed_ms
StoredObject(d, kind) ==
    [day |-> d, kind |-> kind,
     timestamp |-> CASE kind = "record" -> Instant(startOf(d))
                     [] kind = "record-elsewhere" -> Instant(endOf(Today + 1))
                     [] kind = "record-undated" -> GarbageTs
                     [] OTHER -> NoTs,
     date_iso |-> NoTs,
     LastModified |-> Instant(startOf(d)),
     elapsed_ms |-> CASE kind = "record" -> JsNumber(2)
                      [] kind = "record-undated" -> JsNumber(4)
                      [] OTHER -> NotANumber,
     phi |-> [entities_detected |->
                 IF kind = "record-elsewhere" THEN JsNumber(1)
                 ELSE NotANumber],
     agent_phi_entities |-> IF kind = "record" THEN JsNumber(3)
                            ELSE NotANumber,
     phi_entities |-> IF kind = "record" THEN JsNumber(0) ELSE NotANumber,
     has_phi |-> kind = "record-undated"]

\* the buckets: up to MaxObjects objects, stored under their day partition
Buckets ==
    UNION {{[i \in 1..n |-> StoredObject(b[i].day, b[i].kind)] :
              b \in {c \in [1..n -> [day : Days, kind : ObjectKinds]] :
                       \A i \in 1..n, j \in 1..n :
                          i < j => c[i].day <= c[j].day}} :
           n \in 0..MaxObjects}

\* obj.Key.endsWith(".json")
endsWithJson(k) == records[k].kind # "other-key"

\* the keys under the prefix of day d, in listing order
RECURSIVE KeysFrom(_, _)
KeysFrom(k, d) ==
    IF k > Len(records) THEN <<>>
    ELSE IF records[k].day = d THEN <<k>> \o KeysFrom(k + 1, d)
         ELSE KeysFrom(k + 1, d)

KeysOfDay(d) == KeysFrom(1, d)

\* s3.listObjectsV2({ Prefix, ContinuationToken }): the page after the first
\* `token` keys of the prefix
listObjectsV2(d, token) ==
    LET keys == KeysOfDay(d)
        last == IF token + PageSize < Len(keys) THEN token + PageSize
                ELSE Len(keys)
    IN [Contents |-> SubSeq(keys, token + 1, last),
        IsTruncated |-> last < Len(keys),
        NextContinuationToken |-> last]

NoPage == [Contents |-> <<>>, IsTruncated |-> FALSE,
           NextContinuationToken |-> 0]

\* a loop that reads the first page of each prefix only
nextTokenNone(listing) == 0

\* a loop that follows the token of a page the store reports as the last
nextTokenAlways(listing) == listing.NextContinuationToken

\* continuationToken = listResp.IsTruncated
\*     ? listResp.NextContinuationToken : undefined
nextToken(listing) ==
    IF listing.IsTruncated THEN listing.NextContinuationToken ELSE 0

\* a query date of the history endpoint: a calendar day, a missing
\* parameter, or a string that is no date
QueryDates ==
    {[kind |-> "date", day |-> d] : d \in Days}
    \cup {[kind |-> "missing", day |-> 0], [kind |-> "garbage", day |-> 0]}

NoScanReq == [endpoint |-> Undefined, windowDays |-> 0,
              from |-> [kind |-> "missing", day |-> 0],
              to |-> [kind |-> "missing", day |-> 0]]

\* a quotient of two numbers, kept as the pair it is computed from
Quotient(a, b) == [num |-> a, den |-> b]

NoScanResp == [status |-> 0, success |-> FALSE, message |-> Undefined,
               total |-> 0, avgElapsed |-> Quotient(0, 1), phiDetected |-> 0,
               trend |-> <<>>,
               history |-> <<>>]

ScanError(code, message) ==
    [NoScanResp EXCEPT !.status = code, !.message = message]

\* the prefixes of the metrics window: today back windowDays - 1 days
metricsPrefixes(windowDays) == [i \in 1..windowDays |-> Today - (i - 1)]

\* const dailyCounts = {} before the window is entered
NoCounts == [d \in {} |-> 0]

\* a window initialisation that enters no day
initialCountsNone(windowDays) == NoCounts

\* dailyCounts[d] = 0 for today back windowDays - 1 days
initialCounts(windowDays) ==
    [d \in {Today - i : i \in 0..(windowDays - 1)} |-> 0]

\* dayjs(tsStr).utc().format("YYYY-MM-DD"): the day of the instant; -1 stands
\* for the text "Invalid Date"
dateKey(t) == IF t.kind = "instant" THEN t.at \div TicksPerDay ELSE -1

\* metrics.total ? elapsedSum / metrics.total : 0
avgElapsed(sum, n) == IF n # 0 THEN Quotient(sum, n) ELSE Quotient(0, 1)

\* Object.entries(dailyCounts).map(([date, count]) => ({ date, count })), in
\* insertion order: the oldest day first
trend(counts) ==
    LET n == Cardinality(DOMAIN counts)
    IN [i \in 1..n |-> [date |-> Today - n + i,
                        count |-> counts[Today - n + i]]]

\* the prefixes of a history range: every day from `from` to `to`
historyPrefixes(from, to) == [i \in 1..(to - from + 1) |-> from + (i - 1)]

\* body.timestamp || body.compact?.date_iso || obj.LastModified
tsRaw(o) ==
    IF o.timestamp # NoTs THEN o.timestamp
    ELSE IF o.date_iso # NoTs THEN o.date_iso
    ELSE o.LastModified

\* dayjs.utc(tsRaw).isValid()
hasDate(o) == tsRaw(o).kind = "instant"

\* a filter that drops the last instant of the range
outsideRangeOpenEnd(o, from, to) ==
    tsRaw(o).at < startOf(from) \/ tsRaw(o).at >= endOf(to)

\* ts.isBefore(start) || ts.isAfter(end), for start and end the first and the
\* last instant of the days from and to
outsideRange(o, from, to) ==
    tsRaw(o).at < startOf(from) \/ tsRaw(o).at > endOf(to)

\* GET /api/metrics?windowDays=N
StartMetrics ==
    /\ scanPc = "idle"
    /\ \E n \in 0..(Today + 1) :
         /\ scanReq' = [NoScanReq EXCEPT !.endpoint = "metrics",
                                         !.windowDays = n]
         /\ prefixes' = metricsPrefixes(n)
         /\ dailyCounts' = initialCounts(n)
    /\ scanPc' = "list"
    /\ prefixIdx' = 1
    /\ continuationToken' = 0
    /\ UNCHANGED <<records, page, objIdx, visited, total, elapsedSum,
                   phiDetected, history,
                   scanResp>>
    /\ UNCHANGED <<resolveVars, pendingVars, statsVars, displayVars>>

\* !from || !to
missingDate(f, t) == f.kind = "missing" \/ t.kind = "missing"

\* a validation that accepts a range whose end lies before its start
invalidRangeUnordered(f, t) == f.kind # "date" \/ t.kind # "date"

\* !start.isValid() || !end.isValid() || end.isBefore(start); a string the
\* parser reads as a date is a calendar day, whatever day it is
invalidRange(f, t) == f.kind # "date" \/ t.kind # "date" \/ t.day < f.day

\* GET /api/history?from=&to=: the two validations, then the prefixes
StartHistory ==
    /\ scanPc = "idle"
    /\ \E f \in QueryDates, t \in QueryDates :
         /\ scanReq' = [NoScanReq EXCEPT !.endpoint = "history", !.from = f,
                                         !.to = t]
         /\ IF missingDate(f, t)
            THEN /\ scanResp' = ScanError(400,
                        "from and to (YYYY-MM-DD) are required query parameters")
                 /\ scanPc' = "done"
                 /\ UNCHANGED prefixes
            ELSE IF invalidRange(f, t)
            THEN /\ scanResp' = ScanError(400, "Invalid date range")
                 /\ scanPc' = "done"
                 /\ UNCHANGED prefixes
            ELSE /\ prefixes' = historyPrefixes(f.day, t.day)
                 /\ scanPc' = "list"
                 /\ UNCHANGED scanResp
    /\ prefixIdx' = 1
    /\ continuationToken' = 0
    /\ UNCHANGED <<records, page, objIdx, visited, total, elapsedSum,
                   phiDetected, dailyCounts, history>>
    /\ UNCHANGED <<resolveVars, pendingVars, statsVars, displayVars>>

\* the catch block of either handler: 500 with err.message, no result
ScanCatch(message) ==
    /\ scanResp' = ScanError(500, message)
    /\ scanPc' = "done"

\* one listObjectsV2 call of the do-while loop
ListPage ==
    /\ scanPc = "list"
    /\ prefixIdx <= Len(prefixes)
    /\ \/ /\ page' = listObjectsV2(prefixes[prefixIdx], continuationToken)
          /\ objIdx' = 1
          /\ scanPc' = "page"
          /\ UNCHANGED scanResp
       \/ /\ ScanCatch("list failed")
          /\ UNCHANGED <<page, objIdx>>
    /\ UNCHANGED <<records, scanReq, prefixes, prefixIdx, continuationToken,
                   visited, total, elapsedSum, phiDetected, dailyCounts,
                   history>>
    /\ UNCHANGED <<resolveVars, pendingVars, statsVars, displayVars>>

\* body.phi?.entities_detected || 0; the metrics loop tests the same
\* attribute with > 0
phiEntities(o) ==
    IF o.phi.entities_detected.t = "number" THEN o.phi.entities_detected.n
    ELSE 0

\* the row pushed for the record under key k
historyRow(k) == [s3_key |-> k, phi_entities |-> phiEntities(records[k])]

\* what the loop body does with a record object that was fetched and parsed
Aggregate(k) ==
    IF scanReq.endpoint = "metrics"
    THEN /\ total' = total + 1
         /\ elapsedSum' = IF records[k].elapsed_ms.t = "number"
                          THEN elapsedSum + records[k].elapsed_ms.n
                          ELSE elapsedSum
         /\ phiDetected' = IF phiEntities(records[k]) > 0
                           THEN phiDetected + 1 ELSE phiDetected
         /\ dailyCounts' =
              IF dateKey(tsRaw(records[k])) \in DOMAIN dailyCounts
              THEN [dailyCounts EXCEPT ![dateKey(tsRaw(records[k]))] = @ + 1]
              ELSE dailyCounts
         /\ UNCHANGED history
    ELSE /\ history' =
              IF hasDate(records[k])
                 /\ ~outsideRange(records[k], scanReq.from.day, scanReq.to.day)
              THEN Append(history, historyRow(k)) ELSE history
         /\ UNCHANGED <<total, elapsedSum, phiDetected, dailyCounts>>

\* what the loop body does when getObject or JSON.parse throws: nothing
\* catches it inside the loops, so it reaches the handler's catch block
ObjectFailure(message) == ScanCatch(message)

\* one pass of the for loop over listResp.Contents
ScanObject ==
    /\ scanPc = "page"
    /\ objIdx <= Len(page.Contents)
    /\ LET k == page.Contents[objIdx] IN
       /\ visited' = Append(visited, k)
       /\ IF ~endsWithJson(k)
          THEN /\ objIdx' = objIdx + 1
               /\ UNCHANGED <<scanPc, scanResp, total, elapsedSum,
                              phiDetected, dailyCounts, history>>
          ELSE \/ /\ records[k].kind # "corrupt"
                  /\ Aggregate(k)
                  /\ objIdx' = objIdx + 1
                  /\ UNCHANGED <<scanPc, scanResp>>
               \/ /\ records[k].kind = "corrupt"
                  /\ ObjectFailure("parse failed")
                  /\ UNCHANGED <<objIdx, total, elapsedSum, phiDetected,
                                 dailyCounts, history>>
               \/ /\ ObjectFailure("fetch failed")
                  /\ UNCHANGED <<objIdx, total, elapsedSum, phiDetected,
                                 dailyCounts, history>>
    /\ UNCHANGED <<records, scanReq, prefixes, prefixIdx, continuationToken,
                   page>>
    /\ UNCHANGED <<resolveVars, pendingVars, statsVars, displayVars>>

\* the end of a page: the next page of the prefix while the store reports
\* one, else the next prefix
EndOfPage ==
    /\ scanPc = "page"
    /\ objIdx > Len(page.Contents)
    /\ continuationToken' = nextToken(page)
    /\ prefixIdx' = IF continuationToken' # 0 THEN prefixIdx
                    ELSE prefixIdx + 1
    /\ scanPc' = "list"
    /\ UNCHANGED <<records, scanReq, prefixes, page, objIdx, visited, total,
                   elapsedSum, phiDetected, dailyCounts,
                   history, scanResp>>
    /\ UNCHANGED <<resolveVars, pendingVars, statsVars, displayVars>>

\* every prefix is exhausted: respond with the result
ScanRespond ==
    /\ scanPc = "list"
    /\ prefixIdx > Len(prefixes)
    /\ scanResp' = [NoScanResp EXCEPT
                        !.status = 200, !.success = TRUE, !.total = total,
                        !.avgElapsed = avgElapsed(elapsedSum, total),
                        !.phiDetected = phiDetected,
                        !.trend = trend(dailyCounts),
                        !.history = history]
    /\ scanPc' = "done"
    /\ UNCHANGED <<records, scanReq, prefixes, prefixIdx, continuationToken,
                   page, objIdx, visited, total, elapsedSum, phiDetected,
                   dailyCounts, history>>
    /\ UNCHANGED <<resolveVars, pendingVars, statsVars, displayVars>>

\* the response has been delivered
FinishScan ==
    /\ scanPc = "done"
    /\ scanPc' = "idle"
    /\ scanReq' = NoScanReq
    /\ prefixes' = <<>>
    /\ prefixIdx' = 1
    /\ continuationToken' = 0
    /\ page' = NoPage
    /\ objIdx' = 1
    /\ visited' = <<>>
    /\ total' = 0
    /\ elapsedSum' = 0
    /\ phiDetected' = 0
    /\ dailyCounts' = NoCounts
    /\ history' = <<>>
    /\ scanResp' = NoScanResp
    /\ UNCHANGED records
    /\ UNCHANGED <<resolveVars, pendingVars, statsVars, displayVars>>

ScanIdle ==
    /\ scanPc = "idle"
    /\ scanReq = NoScanReq
    /\ prefixes = <<>>
    /\ prefixIdx = 1
    /\ continuationToken = 0
    /\ page = NoPage
    /\ objIdx = 1
    /\ visited = <<>>
    /\ total = 0
    /\ elapsedSum = 0
    /\ phiDetected = 0
    /\ dailyCounts = NoCounts
    /\ history = <<>>
    /\ scanResp = NoScanResp

----------------------------------------------------------------------------
\* Dashboard cards: GET /api/hitl/stats

\* the store returns at most StatsPageSize items per scan page
StatsPageSize == Cardinality(QueueIds) - 1

\* dynamo.scan({ TableName, ExclusiveStartKey }): the page after the first
\* `startKey` items of the table
dynamoScan(table, startKey) ==
    LET all == StoredItems(table, ScanOrder)
        last == IF startKey + StatsPageSize < Len(all)
                THEN startKey + StatsPageSize ELSE Len(all)
    IN [Items |-> SubSeq(all, startKey + 1, last),
        LastEvaluatedKey |-> IF last < Len(all) THEN last ELSE 0]

\* dayjs(text) of a stored timestamp: the instant of an ISO string, an
\* invalid date for any other text
parseIso(text) ==
    IF \E i \in 1..Len(IsoStrings) : IsoStrings[i] = text
    THEN Instant((CHOOSE i \in 1..Len(IsoStrings) : IsoStrings[i] = text) - 1)
    ELSE GarbageTs

\* String.prototype.toUpperCase on the decisions that occur
toUpperCase(text) ==
    CASE text = "allow" -> "ALLOW"
      [] text = "quarantine" -> "QUARANTINE"
      [] text = Undefined -> ""
      [] OTHER -> text

\* String.prototype.toLowerCase on the verdicts that occur
toLowerCase(text) ==
    CASE text = "ALLOW" -> "allow"
      [] text = "BLOCK" -> "block"
      [] text = Undefined -> ""
      [] OTHER -> text

\* let agreed
agreed(it) ==
    \/ toUpperCase(it.decision) = "ALLOW" /\ toLowerCase(it.verdict) = "allow"
    \/ toUpperCase(it.decision) = "QUARANTINE"
       /\ toLowerCase(it.verdict) = "block"

\* resolvedTs && resolvedTs.isValid()
resolvedValid(it) ==
    it.resolved_ts # Undefined /\ parseIso(it.resolved_ts).kind = "instant"

\* resolvedTs.format("YYYY-MM-DD") === todayStr: the date of the resolve in
\* the server's zone against the UTC date of the request
resolvedToday(it, t, offset) ==
    /\ resolvedValid(it)
    /\ dateKey(Instant(parseIso(it.resolved_ts).at + offset))
         = dateKey(Instant(t))

\* what the item adds to totalDurationSec
durationOf(it) ==
    IF resolvedValid(it) /\ it.created_ts # Undefined
       /\ parseIso(it.created_ts).kind = "instant"
       /\ parseIso(it.resolved_ts).at - parseIso(it.created_ts).at > 0
    THEN parseIso(it.resolved_ts).at - parseIso(it.created_ts).at
    ELSE 0

RECURSIVE totalDurationSec(_)
totalDurationSec(its) ==
    IF its = <<>> THEN 0
    ELSE durationOf(Head(its)) + totalDurationSec(Tail(its))

\* the positions of the resolved items
resolvedOf(its) == {i \in 1..Len(its) : its[i].status = "resolved"}

NoStatsResp == [status |-> 0, success |-> FALSE, pending |-> 0,
                reviewedToday |-> 0, accuracy |-> Quotient(0, 1),
                avgTimeSeconds |-> Quotient(0, 1)]

\* totalResolved > 0 ? agreements / totalResolved : 0
accuracyOf(its) ==
    IF Cardinality(resolvedOf(its)) > 0
    THEN Quotient(Cardinality({i \in resolvedOf(its) : agreed(its[i])}),
                  Cardinality(resolvedOf(its)))
    ELSE Quotient(0, 1)

\* totalResolved > 0 ? totalDurationSec / totalResolved : 0
avgTimeOf(its) ==
    IF Cardinality(resolvedOf(its)) > 0
    THEN Quotient(totalDurationSec(SelectSeq(its,
                      LAMBDA it : it.status = "resolved")),
                  Cardinality(resolvedOf(its)))
    ELSE Quotient(0, 1)

\* a loop that stops after its first page
scanAgainNever(result) == FALSE

\* while (lastEval), for lastEval = result.LastEvaluatedKey
scanAgain(result) == result.LastEvaluatedKey # 0

\* the handler starts: the first scan page is asked for
StartStats ==
    /\ statsPc = "idle"
    /\ statsPc' = "scan"
    /\ UNCHANGED <<utcOffset, scanned, lastEval, statsResp>>
    /\ UNCHANGED <<resolveVars, pendingVars, scanVars, displayVars>>

\* one pass of the do-while loop: a page is appended, or the scan throws
StatsScanPage ==
    /\ statsPc = "scan"
    /\ \/ LET result == dynamoScan(queue, lastEval) IN
          /\ scanned' = scanned \o result.Items
          /\ lastEval' = result.LastEvaluatedKey
          /\ statsPc' = IF scanAgain(result) THEN "scan" ELSE "count"
          /\ UNCHANGED statsResp
       \/ /\ statsResp' = [NoStatsResp EXCEPT !.status = 500]
          /\ statsPc' = "done"
          /\ UNCHANGED <<scanned, lastEval>>
    /\ UNCHANGED utcOffset
    /\ UNCHANGED <<resolveVars, pendingVars, scanVars, displayVars>>

\* the counting loop over the items and the response
StatsRespond ==
    /\ statsPc = "count"
    /\ statsResp' =
         [status |-> 200, success |-> TRUE,
          pending |-> Cardinality({i \in 1..Len(scanned) :
                                     scanned[i].status = "pending"}),
          reviewedToday |-> Cardinality({i \in resolvedOf(scanned) :
              resolvedToday(scanned[i], now, utcOffset)}),
          accuracy |-> accuracyOf(scanned),
          avgTimeSeconds |-> avgTimeOf(scanned)]
    /\ statsPc' = "done"
    /\ UNCHANGED <<utcOffset, scanned, lastEval>>
    /\ UNCHANGED <<resolveVars, pendingVars, scanVars, displayVars>>

\* the response has been delivered
FinishStats ==
    /\ statsPc = "done"
    /\ statsPc' = "idle"
    /\ scanned' = <<>>
    /\ lastEval' = 0
    /\ statsResp' = NoStatsResp
    /\ UNCHANGED utcOffset
    /\ UNCHANGED <<resolveVars, pendingVars, scanVars, displayVars>>

StatsIdle ==
    /\ statsPc = "idle"
    /\ utcOffset = 0
    /\ scanned = <<>>
    /\ lastEval = 0
    /\ statsResp = NoStatsResp

----------------------------------------------------------------------------
\* Display fields: the values the pending listing, the history rows and
\* GET /api/log/detail resolve from one DecisionRecord

\* the call sites of the field extractor
Sites == {"pending", "history", "detail"}

\* the display fields of a site; a null is Undefined, <<>> or JsUndefined
NoDisplay == [shown |-> FALSE, body_preview |-> JsUndefined,
              reasoning |-> JsUndefined, sender |-> <<>>,
              recipient |-> Undefined, subject |-> Undefined,
              classification |-> Undefined, confidence |-> NotANumber]

\* the display fields among those the mapper of the pending listing returns
pendingDisplay(it, d) ==
    LET e == enrichedItem(it, d)
    IN [shown |-> TRUE, body_preview |-> e.body_preview,
        reasoning |-> e.reasoning, sender |-> e.sender,
        recipient |-> e.recipient, subject |-> e.subject,
        classification |-> e.classification, confidence |-> e.confidence]

\* the display fields of the row the history loop pushes for a record
historyDisplay(d) ==
    [shown |-> TRUE,
     body_preview |-> extractBodyPreview(d),
     reasoning |-> extractReasoning(d),
     sender |-> IF d.compact.from_addr # <<>> THEN d.compact.from_addr
                ELSE IF d.decision_agent.present
                        /\ d.decision_agent.signals.from_addr # <<>>
                     THEN d.decision_agent.signals.from_addr
                ELSE <<"unknown">>,
     recipient |-> IF d.compact.to # Undefined THEN d.compact.to
                   ELSE IF d.decision_agent.present
                           /\ d.decision_agent.signals.to_addr # Undefined
                        THEN d.decision_agent.signals.to_addr
                   ELSE "unknown",
     subject |-> IF d.compact.subject # Undefined THEN d.compact.subject
                 ELSE "(no subject)",
     classification |-> IF d.summary.classification # Undefined
                        THEN d.summary.classification ELSE "unknown",
     confidence |-> IF d.summary.confidence.t = "number"
                    THEN d.summary.confidence ELSE NotANumber]

\* the headers, body_preview and reasoning of the log-detail response; the
\* handler resolves no classification and no confidence
detailDisplay(d) ==
    [NoDisplay EXCEPT !.shown = TRUE,
                      !.body_preview = extractBodyPreview(d),
                      !.reasoning = extractReasoning(d),
                      !.sender = d.compact.from_addr,
                      !.recipient = d.compact.to,
                      !.subject = d.compact.subject]

\* the mapper of the pending listing runs on item q1, which refers to the
\* record under k1; the other two sites are asked about the same record
PendingDisplay ==
    /\ logs["k1"].kind = "json"
    /\ ~display["pending"].shown
    /\ display' = [display EXCEPT !["pending"] =
                      pendingDisplay(queue["q1"], logs["k1"].doc)]
    /\ UNCHANGED <<resolveVars, pendingVars, scanVars, statsVars>>

\* the history loop runs on the record
HistoryDisplay ==
    /\ logs["k1"].kind = "json"
    /\ ~display["history"].shown
    /\ display' = [display EXCEPT !["history"] =
                      historyDisplay(logs["k1"].doc)]
    /\ UNCHANGED <<resolveVars, pendingVars, scanVars, statsVars>>

\* GET /api/log/detail?key= on the record
LogDetail ==
    /\ logs["k1"].kind = "json"
    /\ ~display["detail"].shown
    /\ display' = [display EXCEPT !["detail"] =
                      detailDisplay(logs["k1"].doc)]
    /\ UNCHANGED <<resolveVars, pendingVars, scanVars, statsVars>>

DisplayIdle == display = [site \in Sites |-> NoDisplay]

----------------------------------------------------------------------------
\* Specifications

\* verdict resolution starts from the queue the pipeline filled
InitResolve ==
    /\ queue = InitialQueue
    /\ logs \in [LogKeys -> InitialObjects]
    /\ feedback = {}
    /\ SlotsIdle
    /\ ListingIdle
    /\ records = <<>>
    /\ ScanIdle
    /\ StatsIdle
    /\ DisplayIdle

\* an item that an earlier resolve has answered
ResolvedEarlier(it) ==
    [it EXCEPT !.status = "resolved", !.verdict = "block",
               !.actor = "unknown", !.notes = "", !.resolved_ts = "T0"]

\* the queues the listing may meet: three items, each pending or resolved;
\* q1 and q3 carry a log reference, q2 carries none
ListedQueues ==
    LET base == [i \in {"q1", "q2", "q3"} |->
                    IF i = "q2" THEN InitialQueue["q2"]
                    ELSE PendingItem(i, <<"eve", "@", "evil.example">>,
                                     "evil.example", Undefined,
                                     IF i = "q1" THEN "k1" ELSE "k3")]
    IN {[i \in {"q1", "q2", "q3"} |->
            IF i \in done THEN ResolvedEarlier(base[i]) ELSE base[i]] :
        done \in SUBSET {"q1", "q2", "q3"}}

\* the pending listing alone, over a queue and a log store that do not change
InitPending ==
    /\ queue \in ListedQueues
    /\ logs \in [{"k1", "k3"} -> InitialObjects \cup {NoObject}]
    /\ feedback = {}
    /\ SlotsIdle
    /\ ListingIdle
    /\ records = <<>>
    /\ ScanIdle
    /\ StatsIdle
    /\ DisplayIdle

\* the partition scan alone, over a records that does not change
InitScan ==
    /\ queue = InitialQueue
    /\ logs = [k \in LogKeys |-> NoObject]
    /\ feedback = {}
    /\ SlotsIdle
    /\ ListingIdle
    /\ records \in Buckets
    /\ ScanIdle
    /\ StatsIdle
    /\ DisplayIdle

\* the instants a record can carry: any instant of the partition days and of
\* the day after them
Instants == {Instant(n) : n \in 0..endOf(Today + 1)}

TsValues == Instants \cup {GarbageTs, NoTs}

\* the history range filter: one record under a day partition, carrying any
\* timestamp, any compact.date_iso and any LastModified
InitRange ==
    /\ queue = InitialQueue
    /\ logs = [k \in LogKeys |-> NoObject]
    /\ feedback = {}
    /\ SlotsIdle
    /\ ListingIdle
    /\ \E d \in Days, t \in TsValues, c \in TsValues, m \in Instants :
         records = <<[StoredObject(d, "record") EXCEPT !.timestamp = t,
                                                       !.date_iso = c,
                                                       !.LastModified = m]>>
    /\ ScanIdle
    /\ StatsIdle
    /\ DisplayIdle

\* the machine decisions and the outcomes of the items of the queue
StatsDecisions == {"ALLOW", "allow", "QUARANTINE", "IT_REVIEW"}

StatsTimes == {[created_ts |-> "T0", resolved_ts |-> "T2"],
               [created_ts |-> Undefined, resolved_ts |-> "T3"],
               [created_ts |-> "T3", resolved_ts |-> "T2"]}

\* a QueueItem of the table: pending, or resolved with a verdict
StatsItems(id) ==
    {PendingItem(id, <<"eve", "@", "evil.example">>, "evil.example",
                 Undefined, Undefined)}
    \cup {[PendingItem(id, <<"eve", "@", "evil.example">>, "evil.example",
                       Undefined, Undefined)
              EXCEPT !.status = "resolved", !.decision = d, !.verdict = v,
                     !.actor = "alice", !.notes = "",
                     !.created_ts = t.created_ts,
                     !.resolved_ts = t.resolved_ts] :
            d \in StatsDecisions, v \in {"allow", "block"}, t \in StatsTimes}

\* the dashboard cards over a queue that does not change
InitStats ==
    /\ \E q1 \in StatsItems("q1"), q2 \in StatsItems("q2"),
          q3 \in StatsItems("q3") :
         queue = [i \in QueueIds |-> CASE i = "q1" -> q1 [] i = "q2" -> q2
                                       [] OTHER -> q3]
    /\ logs = [k \in LogKeys |-> NoObject]
    /\ feedback = {}
    /\ now = TicksPerDay
    /\ started = 0
    /\ pc = [r \in Slots |-> "idle"]
    /\ req = [r \in Slots |-> NoReq]
    /\ ts = [r \in Slots |-> Undefined]
    /\ item = [r \in Slots |-> NoItem]
    /\ doc = [r \in Slots |-> NoDoc]
    /\ s3Location = [r \in Slots |-> NullLocation]
    /\ resp = [r \in Slots |-> NoResp]
    /\ ListingIdle
    /\ records = <<>>
    /\ ScanIdle
    /\ statsPc = "idle"
    /\ utcOffset \in {0, -1}
    /\ scanned = <<>>
    /\ lastEval = 0
    /\ statsResp = NoStatsResp
    /\ DisplayIdle

\* the PHI signals a record can carry
PhiNumbers == {NotANumber, JsNumber(0), JsNumber(3)}

\* the PHI count of a row: one record under a day partition, carrying any
\* combination of the PHI signals
InitPhi ==
    /\ queue = InitialQueue
    /\ logs = [k \in LogKeys |-> NoObject]
    /\ feedback = {}
    /\ SlotsIdle
    /\ ListingIdle
    /\ \E d \in Days, a \in PhiNumbers, t \in PhiNumbers, e \in PhiNumbers,
          h \in BOOLEAN :
         records = <<[StoredObject(d, "record") EXCEPT
                         !.agent_phi_entities = a, !.phi_entities = t,
                         !.phi.entities_detected = e, !.has_phi = h]>>
    /\ ScanIdle
    /\ StatsIdle
    /\ DisplayIdle

\* the header attributes a record can come with: each of compact.from.addr,
\* compact.to, compact.subject and the decision-agent signals is there or not
DisplayDocs ==
    {[BaseDoc("IT_REVIEW", TRUE, PendingHitl, NoQueueDoc) EXCEPT
         !.compact.from_addr = f, !.compact.to = t, !.compact.subject = j,
         !.decision_agent.signals.from_addr = sf,
         !.decision_agent.signals.to_addr = st] :
       f \in {<<>>, <<"eve", "@", "evil.example">>},
       t \in {Undefined, "it@clinic.org"},
       j \in {Undefined, "Invoice (as received)"},
       sf \in {<<>>, <<"eve", "@", "evil.example">>},
       st \in {Undefined, "it@clinic.org"}}

\* the three call sites over one record and the item that refers to it
InitDisplay ==
    /\ \E j \in {Undefined, "Invoice"},
          f \in {<<>>, <<"eve", "@", "evil.example">>} :
         queue = [InitialQueue EXCEPT !["q1"].subject = j,
                                      !["q1"].from_addr = f]
    /\ \E d \in DisplayDocs : logs = [k \in LogKeys |-> JsonObject(d)]
    /\ feedback = {}
    /\ SlotsIdle
    /\ ListingIdle
    /\ records = <<>>
    /\ ScanIdle
    /\ StatsIdle
    /\ DisplayIdle

\* the reasoning attributes a record can come with: every candidate of
\* extractReasoning is a string, a list, or not there
ReasoningDocs ==
    {[BaseDoc("IT_REVIEW", da, PendingHitl, NoQueueDoc) EXCEPT
         !.content = c, !.reasoning = r, !.summary.reasoning = sr,
         !.decision_agent.reasoning = dr, !.decision_agent.explanation = de,
         !.decision_agent.reasons = dl,
         !.explanation = e, !.decision_reasons = l] :
       da \in BOOLEAN,
       c \in {[present |-> FALSE, notes |-> <<>>],
              [present |-> TRUE, notes |-> <<>>],
              [present |-> TRUE, notes |-> <<[reasoning |-> JsUndefined]>>],
              [present |-> TRUE,
               notes |-> <<[reasoning |-> JsString(<<"note text">>)]>>],
              [present |-> TRUE,
               notes |-> <<[reasoning |-> JsArray(<<"note a", "note b">>)],
                           [reasoning |-> JsString(<<"second note">>)]>>]},
       r \in {JsUndefined, JsString(<<"top text">>),
              JsArray(<<"top a", "top b">>)},
       sr \in {JsUndefined, JsString(<<"summary text">>)},
       dr \in {JsUndefined, JsString(<<"agent text">>)},
       de \in {JsUndefined, JsString(<<"agent explanation">>)},
       dl \in {JsUndefined, JsArray(<<"agent a", "agent b">>)},
       e \in {JsUndefined, JsString(<<"top explanation">>)},
       l \in {JsUndefined, JsArray(<<"legacy a", "legacy b">>)}}

\* the call sites of extractReasoning over one record
InitReasoning ==
    /\ queue = InitialQueue
    /\ \E d \in ReasoningDocs : logs = [k \in LogKeys |-> JsonObject(d)]
    /\ feedback = {}
    /\ SlotsIdle
    /\ ListingIdle
    /\ records = <<>>
    /\ ScanIdle
    /\ StatsIdle
    /\ DisplayIdle

vars == <<resolveVars, pendingVars, scanVars, statsVars, displayVars>>

Init == InitResolve

\* concurrent requests are served independently: their steps interleave
Next ==
    \/ \E r \in Slots : Receive(r)
    \/ \E r \in Slots : QueueGet(r)
    \/ \E r \in Slots : QueueUpdate(r)
    \/ \E r \in Slots : LogGet(r)
    \/ \E r \in Slots : LogPut(r)
    \/ \E r \in Slots : Learn(r)
    \/ \E r \in Slots : Finish(r)

Spec == Init /\ [][Next]_vars

\* a request that arrives while no other slot holds a request for the same id
\* (in flight, or answered and not yet finished)
ReceiveAlone(r) ==
    /\ Receive(r)
    /\ \A o \in Slots \ {r} : pc[o] # "idle" => req[o].id # req'[r].id

\* the clients never resolve the same id concurrently
NextSerial ==
    \/ \E r \in Slots : ReceiveAlone(r)
    \/ \E r \in Slots : QueueGet(r)
    \/ \E r \in Slots : QueueUpdate(r)
    \/ \E r \in Slots : LogGet(r)
    \/ \E r \in Slots : LogPut(r)
    \/ \E r \in Slots : Learn(r)
    \/ \E r \in Slots : Finish(r)

SpecSerial == Init /\ [][NextSerial]_vars

NextPending ==
    \/ ListPending
    \/ \E i \in 1..Len(ScanOrder) : EnrichItem(i)
    \/ RespondPending
    \/ FinishPending

SpecPending == InitPending /\ [][NextPending]_vars

\* the analyst who resolves items while the dashboard lists the pending
\* ones: the steps of a verdict request interleave with those of a listing
NextListing ==
    \/ Receive("r1")
    \/ QueueGet("r1")
    \/ QueueUpdate("r1")
    \/ LogGet("r1")
    \/ LogPut("r1")
    \/ Learn("r1")
    \/ Finish("r1")
    \/ ListPending
    \/ \E i \in 1..Len(ScanOrder) : EnrichItem(i)
    \/ RespondPending
    \/ FinishPending

SpecListing == InitResolve /\ [][NextListing]_vars

NextScan ==
    \/ StartMetrics
    \/ StartHistory
    \/ ListPage
    \/ ScanObject
    \/ EndOfPage
    \/ ScanRespond
    \/ FinishScan

SpecScan == InitScan /\ [][NextScan]_vars

\* every awaited store call of a scan is answered, and the handler runs its
\* continuation when it is
SpecScanFair ==
    /\ InitScan
    /\ [][NextScan]_vars
    /\ WF_vars(ListPage)
    /\ WF_vars(ScanObject)
    /\ WF_vars(EndOfPage)
    /\ WF_vars(ScanRespond)

SpecRange == InitRange /\ [][NextScan]_vars

SpecPhi == InitPhi /\ [][NextScan]_vars

NextStats ==
    \/ StartStats
    \/ StatsScanPage
    \/ StatsRespond
    \/ FinishStats

SpecStats == InitStats /\ [][NextStats]_vars

NextDisplay ==
    \/ PendingDisplay
    \/ HistoryDisplay
    \/ LogDetail

SpecDisplay == InitDisplay /\ [][NextDisplay]_vars

SpecReasoning == InitReasoning /\ [][NextDisplay]_vars

----------------------------------------------------------------------------
\* Properties of verdict resolution

stores == <<queue, logs, feedback>>

LogPatchErrors == {"log read failed", "log parse failed", "log write failed"}

\* the request in slot r has committed its queue update
Committed(r) ==
    \/ pc[r] \in {"s3get", "s3put", "learn"}
    \/ pc[r] = "done" /\ resp[r].status = 200
    \/ pc[r] = "done" /\ resp[r].details \in LogPatchErrors

\* C1: a request whose verdict is not exactly "allow" or "block" (a missing
\* verdict included) is answered 400 with success false straight from
\* validation: it never reaches a store call, and the step that answers it
\* changes no store.
C1_InvalidVerdictRejected ==
    /\ [](\A r \in Slots :
            pc[r] # "idle" /\ req[r].verdict \notin {"allow", "block"}
            => /\ pc[r] = "done"
               /\ resp[r].status = 400
               /\ resp[r].success = FALSE)
    /\ [][\A r \in Slots :
            pc[r] = "idle" /\ pc'[r] # "idle"
            /\ req'[r].verdict \notin {"allow", "block"}
            => UNCHANGED stores]_vars

C1_Witness ==
    \E r \in Slots :
        pc[r] = "done" /\ req[r].verdict = "maybe" /\ resp[r].status = 400

\* C2: when the queue read of a resolve finds no QueueItem under the id, the
\* request is answered 404 with success false (500 if the read itself
\* failed), and neither that step nor the validation step before it changes
\* the Review Queue, the Decision Log or the Feedback store.
C2_NotFoundNoWrites ==
    /\ [][\A r \in Slots :
            pc[r] = "get" /\ pc'[r] # "get" /\ req[r].id \notin DOMAIN queue
            => /\ pc'[r] = "done"
               /\ \/ resp'[r].status = 404 /\ resp'[r].success = FALSE
                  \/ resp'[r].status = 500
                     /\ resp'[r].details = "queue read failed"
               /\ UNCHANGED stores]_vars
    /\ [][\A r \in Slots : pc[r] = "idle" /\ pc'[r] # "idle"
            => UNCHANGED stores]_vars
    /\ [](\A r \in Slots : resp[r].status = 404
            => req[r].id \notin DOMAIN queue /\ resp[r].success = FALSE)

C2_Witness ==
    \E r \in Slots :
        /\ pc[r] = "done" /\ resp[r].status = 404
        /\ req[r].id = "q3" /\ "q3" \notin DOMAIN queue

\* C3: when a resolve returns success and no other resolve of the same id
\* runs concurrently, the QueueItem has status resolved, the submitted
\* verdict, the actor (default "unknown"), the notes (default "") and the
\* request's timestamp, whether or not the item has a log reference and
\* whether or not the log was patched.
C3_SuccessMeansResolved ==
    \A r \in Slots :
        pc[r] = "done" /\ resp[r].success
        => /\ req[r].id \in DOMAIN queue
           /\ LET it == queue[req[r].id] IN
              /\ it.status = "resolved"
              /\ it.verdict = req[r].verdict
              /\ it.actor = IF req[r].actor = Undefined THEN "unknown"
                            ELSE req[r].actor
              /\ it.notes = IF req[r].notes = Undefined THEN ""
                            ELSE req[r].notes
              /\ it.resolved_ts = ts[r]
              /\ ts[r] # Undefined

\* two successful resolves side by side: one patched its log, the other is of
\* an item without a log reference
C3_Witness ==
    \E r, o \in Slots :
        /\ pc[r] = "done" /\ resp[r].success /\ resp[r].s3Updated
        /\ pc[o] = "done" /\ resp[o].success /\ ~resp[o].s3Updated
        /\ queue[req[o].id].log_key = Undefined

\* C4: a resolve whose log patch failed (read, parse or write-back) after
\* its queue update is answered 200 with success true and s3Updated false,
\* and its queue item is resolved.
C4_LogPatchFailureReportsSuccess ==
    \A r \in Slots :
        pc[r] = "done" /\ resp[r].details \in LogPatchErrors
        => /\ resp[r].status = 200
           /\ resp[r].success
           /\ ~resp[r].s3Updated
           /\ queue[req[r].id].status = "resolved"

\* C5: the queue update is never rolled back: from the moment a resolve has
\* committed it, through every later step and every error response, the
\* item is resolved with the submitted verdict; and no step of any request
\* takes a resolved item back to pending.
C5_QueueUpdateNeverRolledBack ==
    /\ [](\A r \in Slots :
            Committed(r)
            => /\ queue[req[r].id].status = "resolved"
               /\ queue[req[r].id].verdict = req[r].verdict)
    /\ [][\A i \in DOMAIN queue :
            queue[i].status = "resolved"
            => i \in DOMAIN queue' /\ queue'[i].status = "resolved"]_vars

C5_Witness ==
    \E r \in Slots :
        /\ pc[r] = "done" /\ resp[r].status = 500
        /\ resp[r].details = "log write failed"
        /\ queue[req[r].id].status = "resolved"
        /\ queue[req[r].id].verdict = req[r].verdict

\* C6: the feedback step never fails the request: whether the put succeeded
\* or failed, the step answers 200 with success true and s3Updated telling
\* whether the log was patched, and leaves the queue and the log unchanged.
C6_FeedbackFailureIsSwallowed ==
    [][\A r \in Slots :
        pc[r] = "learn" /\ pc'[r] # "learn"
        => /\ resp'[r].status = 200
           /\ resp'[r].success
           /\ resp'[r].s3Updated = (s3Location[r] # NullLocation)
           /\ UNCHANGED <<queue, logs>>]_vars

\* a resolve answered 200 after a log patch whose feedback entry is not in
\* the store: its put failed
C6_Witness ==
    \E r \in Slots :
        /\ pc[r] = "done" /\ resp[r].status = 200 /\ resp[r].s3Updated
        /\ \A e \in feedback : e.sk # <<"verdict#", ts[r]>>

----------------------------------------------------------------------------
\* Properties of the pending listing

\* position of an id in the scan order
ScanPosition(id) == CHOOSE k \in 1..Len(ScanOrder) : ScanOrder[k] = id

\* the log object of item it cannot be fetched and parsed
LogUnusable(it) ==
    it.log_key # Undefined /\ logs[it.log_key].kind # "json"

\* C7: once the scan has succeeded the listing answers 200 with success true
\* whatever the log fetches do; the output at the position of an item whose
\* log is missing or unparseable, and of any item returned without display
\* fields, carries every field of the scanned item with the same value; an
\* item whose log was fetched carries the display fields of its own log.
C7_FailedEnrichmentKeepsItem ==
    /\ [][listPc = "enriching" /\ listPc' = "done"
            => listResp'.status = 200 /\ listResp'.success]_vars
    /\ [](listPc = "done" /\ listResp.success
            => /\ Len(listResp.items) = Len(items)
               /\ \A i \in 1..Len(items) :
                    LET out == listResp.items[i] IN
                    /\ LogUnusable(items[i]) => "sender" \notin DOMAIN out
                    /\ "sender" \notin DOMAIN out
                       => \A f \in DOMAIN items[i] :
                            f \in DOMAIN out /\ out[f] = items[i][f]
                    /\ "sender" \in DOMAIN out
                       => /\ logs[items[i].log_key].kind = "json"
                          /\ out.log_decision
                                = logs[items[i].log_key].doc.decision)

\* a listing answered with success that holds an item whose log object is
\* missing or unparseable next to an item that was enriched
C7_Witness ==
    /\ listPc = "done" /\ listResp.success
    /\ \E i, j \in 1..Len(items) :
         /\ LogUnusable(items[i])
         /\ listResp.items[i].subject = items[i].subject
         /\ "sender" \in DOMAIN listResp.items[j]

\* C8: the answer of the listing holds exactly one item per scanned pending
\* item, at the position the scan gave it, in whatever order the mapper
\* calls settled, and it is sent only when every call has settled.
C8_OutputInScanOrder ==
    listPc = "done" /\ listResp.status = 200
    => /\ Len(listResp.items) = Len(items)
       /\ {items[i].id : i \in 1..Len(items)}
            = {i \in DOMAIN queue : queue[i].status = "pending"}
       /\ \A i \in 1..Len(items) :
            /\ enriched[i].state = "fulfilled"
            /\ listResp.items[i].id = items[i].id
            /\ \A j \in 1..Len(items) :
                 i < j => ScanPosition(items[i].id) < ScanPosition(items[j].id)

\* an answer of three items whose mapper calls settled last to first
C8_Witness ==
    /\ listPc = "done" /\ listResp.status = 200
    /\ Len(listResp.items) = 3
    /\ settled = <<3, 2, 1>>

----------------------------------------------------------------------------
\* Properties of the partition scan

\* the keys of the given prefixes, prefix after prefix, in listing order
RECURSIVE KeysOfPrefixes(_)
KeysOfPrefixes(ps) ==
    IF ps = <<>> THEN <<>>
    ELSE KeysOfDay(Head(ps)) \o KeysOfPrefixes(Tail(ps))

\* the request passed validation and every listObjectsV2 call it made
\* succeeded
ScanListedEverything ==
    /\ scanPc = "done"
    /\ scanResp.status # 400
    /\ scanResp.message # "list failed"

\* C9: a metrics or history scan that meets an object whose fetch fails or
\* whose body is not JSON skips it and goes on: when validation and every
\* listing succeeded the request is answered with success, having run over
\* every key of every prefix.
C9_BadObjectIsSkipped ==
    ScanListedEverything
    => /\ scanResp.success
       /\ visited = KeysOfPrefixes(prefixes)

\* C10: a listing failure fails the request with a 5xx and an empty result;
\* a request answered with success has run over every key of every page of
\* every prefix, in order, and has fetched every .json key among them; a
\* request that is not answered with success carries no metrics or rows.
C10_NoTruncatedSuccess ==
    /\ [][scanPc = "list" /\ scanPc' = "done" /\ prefixIdx <= Len(prefixes)
            => /\ scanResp'.status = 500
               /\ scanResp'.success = FALSE]_vars
    /\ [](scanPc = "done" /\ scanResp.success
            => /\ visited = KeysOfPrefixes(prefixes)
               /\ scanReq.endpoint = "metrics"
                  => scanResp.total
                       = Cardinality({i \in 1..Len(visited) :
                                        records[visited[i]].kind # "other-key"}))
    /\ [](scanPc = "done" /\ ~scanResp.success
            => scanResp.total = 0 /\ scanResp.history = <<>>)

\* a scan answered with success over two prefixes, one of them listed in
\* more than one page
C10_Witness ==
    /\ scanPc = "done" /\ scanResp.success
    /\ Len(prefixes) = 2
    /\ \E i \in 1..Len(prefixes) : Len(KeysOfDay(prefixes[i])) > PageSize
    /\ Len(visited) = MaxObjects

----------------------------------------------------------------------------
\* C11: a history request whose from or to is missing or no date, or whose
\* to lies before its from, is answered 400 with success false, and the
\* handler makes no Decision Log call: no listing, no object fetched.
C11_BadRangeRejected ==
    (/\ scanReq.endpoint = "history"
     /\ \/ missingDate(scanReq.from, scanReq.to)
        \/ scanReq.from.kind # "date"
        \/ scanReq.to.kind # "date"
        \/ scanReq.to.day < scanReq.from.day)
    => /\ scanPc = "done"
       /\ scanResp.status = 400
       /\ scanResp.success = FALSE
       /\ scanResp.history = <<>>
       /\ page = NoPage
       /\ visited = <<>>

\* a reversed range of two dates has been rejected
C11_Witness ==
    /\ scanReq.endpoint = "history"
    /\ scanReq.from.kind = "date"
    /\ scanReq.to.kind = "date"
    /\ scanReq.to.day < scanReq.from.day
    /\ scanResp.status = 400
    /\ scanResp.message = "Invalid date range"

\* C12: a history request answered with success returns a row for exactly
\* those fetched records whose resolved timestamp t (the record timestamp,
\* else compact.date_iso, else the LastModified of the object) is an instant
\* with start-of-from-day <= t <= end-of-to-day, both bounds included.
C12_RangeInclusive ==
    (scanPc = "done" /\ scanResp.success /\ scanReq.endpoint = "history")
    => \A k \in 1..Len(records) :
         (\E i \in 1..Len(scanResp.history) : scanResp.history[i].s3_key = k)
         <=> /\ \E i \in 1..Len(visited) : visited[i] = k
             /\ records[k].kind # "other-key"
             /\ LET o == records[k]
                    t == IF o.timestamp.kind # "undefined" THEN o.timestamp
                         ELSE IF o.date_iso.kind # "undefined" THEN o.date_iso
                         ELSE o.LastModified
                IN /\ t.kind = "instant"
                   /\ scanReq.from.day * TicksPerDay <= t.at
                   /\ t.at <= scanReq.to.day * TicksPerDay + TicksPerDay - 1

\* a single-day request has returned a record whose compact.date_iso is the
\* last instant of that day
C12_Witness ==
    /\ scanPc = "done" /\ scanResp.success /\ scanReq.endpoint = "history"
    /\ scanReq.from.day = scanReq.to.day
    /\ Len(records) = 1
    /\ records[1].timestamp = NoTs
    /\ records[1].date_iso = Instant(endOf(scanReq.to.day))
    /\ Len(scanResp.history) = 1
    /\ scanResp.history[1].s3_key = 1

\* C13: a metrics request of window N answered with success carries a trend
\* of exactly N entries, one per UTC day from N - 1 days ago to today, each
\* with the number of fetched records of that day (0 for a day without one);
\* the average is never a division by zero, and over zero matching objects
\* the result is total 0, avgElapsed 0 and N zero-count entries.
C13_TrendCoversWindow ==
    (scanPc = "done" /\ scanResp.success /\ scanReq.endpoint = "metrics")
    => LET n == scanReq.windowDays
           fetched == {i \in 1..Len(visited) :
                         records[visited[i]].kind # "other-key"}
           onDay(d) == {i \in fetched :
                          LET o == records[visited[i]]
                              t == IF o.timestamp.kind # "undefined"
                                   THEN o.timestamp
                                   ELSE IF o.date_iso.kind # "undefined"
                                        THEN o.date_iso
                                        ELSE o.LastModified
                          IN /\ t.kind = "instant"
                             /\ d * TicksPerDay <= t.at
                             /\ t.at < (d + 1) * TicksPerDay}
       IN /\ Len(scanResp.trend) = n
          /\ \A i \in 1..n :
                /\ scanResp.trend[i].date = Today - n + i
                /\ scanResp.trend[i].count
                     = Cardinality(onDay(Today - n + i))
          /\ scanResp.avgElapsed.den # 0
          /\ fetched = {}
                => /\ scanResp.total = 0
                   /\ scanResp.avgElapsed.num = 0
                   /\ \A i \in 1..n : scanResp.trend[i].count = 0

\* a window of more than one day answered with success: one day has a
\* record, another has none
C13_Witness ==
    /\ scanPc = "done" /\ scanResp.success /\ scanReq.endpoint = "metrics"
    /\ scanReq.windowDays = Today + 1
    /\ \E i, j \in 1..Len(scanResp.trend) :
         scanResp.trend[i].count = 0 /\ scanResp.trend[j].count > 0

\* C14: the accuracy of the dashboard cards is the number of resolved items
\* whose machine decision and verdict agree over the number of resolved
\* items whose machine decision is not IT_REVIEW: a resolved IT_REVIEW item
\* counts in neither.
C14_AccuracyExcludesItReview ==
    (statsPc = "done" /\ statsResp.success)
    => LET scored == {i \in 1..Len(scanned) :
                        /\ scanned[i].status = "resolved"
                        /\ toUpperCase(scanned[i].decision) # "IT_REVIEW"}
           agreeing == {i \in scored : agreed(scanned[i])}
       IN Cardinality(scored) > 0
          => statsResp.accuracy.num * Cardinality(scored)
               = Cardinality(agreeing) * statsResp.accuracy.den

\* C15: the PHI-entity count reported for a record is its first present
\* candidate in the order decision-agent signal (a number), top-level
\* phi_entities (a number), summary.has_phi as 1 or 0: every history row
\* carries that count, and the PHI-positive count of the metrics is the
\* number of fetched records for which it is above 0.
C15_PhiCountByPriority ==
    LET resolved(o) ==
            IF o.agent_phi_entities.t = "number" THEN o.agent_phi_entities.n
            ELSE IF o.phi_entities.t = "number" THEN o.phi_entities.n
            ELSE IF o.has_phi THEN 1 ELSE 0
    IN (scanPc = "done" /\ scanResp.success)
       => /\ \A i \in 1..Len(scanResp.history) :
                scanResp.history[i].phi_entities
                  = resolved(records[scanResp.history[i].s3_key])
          /\ scanReq.endpoint = "metrics"
                => scanResp.phiDetected
                     = Cardinality({i \in 1..Len(visited) :
                          /\ records[visited[i]].kind # "other-key"
                          /\ resolved(records[visited[i]]) > 0})

\* C16: a QueueItem is mutated once, from pending to resolved: a resolve
\* that finds the item already resolved and gets past the queue update has
\* left its status, verdict, actor, notes and resolved_ts as it found them,
\* and no item of the queue is ever deleted.
C16_ResolvedOnce ==
    /\ \A r \in Slots :
          (Committed(r) /\ item[r].status = "resolved")
          => /\ queue[req[r].id].status = item[r].status
             /\ queue[req[r].id].verdict = item[r].verdict
             /\ queue[req[r].id].actor = item[r].actor
             /\ queue[req[r].id].notes = item[r].notes
             /\ queue[req[r].id].resolved_ts = item[r].resolved_ts
    /\ DOMAIN InitialQueue \subseteq DOMAIN queue

\* the record without its hitl copies and its queue sub-object
BusinessFields(d) ==
    [d EXCEPT !.hitl = NoHitl, !.decision_agent.hitl = NoHitl,
              !.queue = NoQueueDoc]

\* C17: the log patch rewrites only the hitl sub-object (top level and
\* decision-agent copy) and the queue sub-object of a DecisionRecord: no
\* step of any resolve, concurrent ones included, changes another field of
\* a stored record, so every business field keeps the value it was first
\* written with; an object that is not a record is never rewritten.
C17_PatchKeepsBusinessFields ==
    [][\A k \in DOMAIN logs :
          /\ logs'[k].kind = logs[k].kind
          /\ BusinessFields(logs'[k].doc) = BusinessFields(logs[k].doc)]_vars

\* a record has been patched twice: a second resolve has rewritten the hitl
\* that a first one wrote
C17_Witness ==
    /\ logs["k1"].kind = "json"
    /\ logs["k1"].doc.hitl.status = "resolved"
    /\ \E r \in Slots :
         /\ pc[r] = "done" /\ resp[r].s3Updated
         /\ item[r].status = "resolved"
         /\ logs["k1"].doc.hitl = newHitl(r)

\* C18: a log patch stores the record with its top-level hitl equal to
\* {status: resolved, actor, verdict, notes, ts} of the verdict applied, and
\* with the hitl copy of the decision-agent sub-object, when the record had
\* one, equal to it; every stored record that has both copies after a patch
\* has them equal.
C18_HitlCopiesIdentical ==
    /\ [][\A r \in Slots :
            pc[r] = "s3put" /\ pc'[r] = "learn"
            => LET before == logs[item[r].log_key].doc
                   after == logs'[item[r].log_key].doc
               IN /\ after.hitl = [status |-> "resolved",
                                   actor |-> actorName(req[r].actor),
                                   verdict |-> req[r].verdict,
                                   notes |-> notesOrEmpty(req[r].notes),
                                   ts |-> ts[r]]
                  /\ (before.decision_agent.present
                      /\ before.decision_agent.hitl # NoHitl)
                     => after.decision_agent.hitl = after.hitl]_vars
    /\ [](\A k \in DOMAIN logs :
            (/\ logs[k].kind = "json"
             /\ logs[k].doc.hitl # NoHitl
             /\ logs[k].doc.decision_agent.present
             /\ logs[k].doc.decision_agent.hitl # NoHitl)
            => logs[k].doc.decision_agent.hitl = logs[k].doc.hitl)

\* a record that came with a pending hitl copy in its decision-agent
\* sub-object has been patched: both copies carry the verdict
C18_Witness ==
    /\ logs["k1"].kind = "json"
    /\ logs["k1"].doc.decision_agent.present
    /\ logs["k1"].doc.hitl.status = "resolved"
    /\ logs["k1"].doc.decision_agent.hitl.status = "resolved"
    /\ logs["k1"].doc.decision_agent.hitl.verdict \in {"allow", "block"}

\* C19: the Feedback Store is append-only: a feedback write adds exactly one
\* new entry, under the key (domain#<from_domain>, verdict#<timestamp>), with
\* trust_tier "trusted" for allow and "blocked" otherwise, and every entry
\* written by an earlier resolve is still there, unchanged, after it.
C19_FeedbackAppendOnly ==
    [][/\ \A e \in feedback : e \in feedback'
       /\ feedback' # feedback
          => \E r \in Slots :
               /\ pc[r] = "learn"
               /\ Cardinality(feedback') = Cardinality(feedback) + 1
               /\ \E e \in feedback' \ feedback :
                    /\ e.pk = <<"domain#", fromDomain(item[r])>>
                    /\ e.sk = <<"verdict#", ts[r]>>
                    /\ e.trust_tier = IF req[r].verdict = "allow"
                                      THEN "trusted" ELSE "blocked"]_vars

\* C20: enriching a pending item neither drops nor changes a field of the
\* QueueItem: every field of the scanned item is in the item of the answer
\* with the same value.
C20_EnrichmentOnlyAddsFields ==
    (listPc = "done" /\ listResp.status = 200)
    => \A i \in 1..Len(items) :
         \A f \in DOMAIN items[i] :
            /\ f \in DOMAIN listResp.items[i]
            /\ listResp.items[i][f] = items[i][f]

\* C21: avgTimeSeconds of the dashboard cards is the mean of resolved_ts -
\* created_ts over the resolved items that have both timestamps valid and a
\* positive duration: the divisor is the number of items whose duration
\* entered the sum.
C21_AvgTimeOverTimedItems ==
    (statsPc = "done" /\ statsResp.success)
    => LET timed == {i \in 1..Len(scanned) :
                       /\ scanned[i].status = "resolved"
                       /\ durationOf(scanned[i]) > 0}
       IN Cardinality(timed) > 0
          => statsResp.avgTimeSeconds.num * Cardinality(timed)
               = totalDurationSec(scanned) * statsResp.avgTimeSeconds.den

\* C22: a stats request answered with success has read every page of the
\* Review Queue Store, following the continuation key until none is
\* returned, and reports as pending the number of pending items over all
\* pages; when no item is resolved, reviewedToday, accuracy and
\* avgTimeSeconds are 0, and no quotient has a zero divisor.
C22_StatsScansEveryPage ==
    (statsPc = "done" /\ statsResp.success)
    => /\ Len(scanned) = Cardinality(DOMAIN queue)
       /\ \A id \in DOMAIN queue :
             \E i \in 1..Len(scanned) : scanned[i] = queue[id]
       /\ statsResp.pending
            = Cardinality({id \in DOMAIN queue : queue[id].status = "pending"})
       /\ statsResp.accuracy.den # 0
       /\ statsResp.avgTimeSeconds.den # 0
       /\ (\A id \in DOMAIN queue : queue[id].status # "resolved")
          => /\ statsResp.reviewedToday = 0
             /\ statsResp.accuracy.num = 0
             /\ statsResp.avgTimeSeconds.num = 0

\* a queue of pending items only, longer than one scan page, has been
\* counted
C22_Witness ==
    /\ statsPc = "done" /\ statsResp.success
    /\ Len(scanned) > StatsPageSize
    /\ statsResp.pending = Cardinality(QueueIds)
    /\ statsResp.reviewedToday = 0
    /\ statsResp.accuracy = Quotient(0, 1)

\* C23: for one DecisionRecord the pending listing, the history row and the
\* log-detail lookup resolve every display field they share to the same
\* value; the placeholders of a site for a value it did not find ("unknown",
\* "(no subject)", null) count as one value.
C23_SitesAgree ==
    LET missing == {Undefined, "unknown", "(no subject)"}
        same(a, b) == (a \in missing /\ b \in missing) \/ a = b
        sameAddr(a, b) ==
            (a \in {<<>>, <<"unknown">>} /\ b \in {<<>>, <<"unknown">>})
            \/ a = b
        agree(x, y) ==
            /\ x.body_preview = y.body_preview
            /\ x.reasoning = y.reasoning
            /\ sameAddr(x.sender, y.sender)
            /\ same(x.recipient, y.recipient)
            /\ same(x.subject, y.subject)
    IN \A a \in Sites, b \in Sites :
         (display[a].shown /\ display[b].shown)
         => /\ agree(display[a], display[b])
            /\ (a # "detail" /\ b # "detail")
               => /\ display[a].classification = display[b].classification
                  /\ display[a].confidence = display[b].confidence

\* C24: the reasoning a site shows is the first present candidate in the
\* order: reasoning of the first content note (a list joined with a blank
\* line), top-level reasoning (string or joined list), summary.reasoning,
\* decision-agent reasoning, decision-agent explanation, joined
\* decision-agent reasons, top-level explanation, joined decision_reasons;
\* it is null when no candidate is present.
C24_FirstPresentCandidate ==
    LET d == logs["k1"].doc
        text(x) == IF x.t = "array" THEN JsString(join(x.v))
                   ELSE IF x.t = "string" THEN x
                   ELSE JsUndefined
        str(x) == IF x.t = "string" THEN x ELSE JsUndefined
        list(x) == IF x.t = "array" THEN JsString(join(x.v)) ELSE JsUndefined
        agent(x) == IF d.decision_agent.present THEN x ELSE JsUndefined
        candidates ==
            <<IF d.content.present /\ Len(d.content.notes) > 0
              THEN text(d.content.notes[1].reasoning) ELSE JsUndefined,
              text(d.reasoning),
              str(d.summary.reasoning),
              agent(str(d.decision_agent.reasoning)),
              agent(str(d.decision_agent.explanation)),
              agent(list(d.decision_agent.reasons)),
              str(d.explanation),
              list(d.decision_reasons)>>
        present == {i \in DOMAIN candidates : candidates[i] # JsUndefined}
        expected == IF present = {} THEN JsUndefined
                    ELSE candidates[CHOOSE i \in present :
                                      \A j \in present : i <= j]
    IN \A site \in Sites :
         display[site].shown => display[site].reasoning = expected

\* a record whose summary.reasoning and top-level explanation are both
\* there, with nothing earlier in the order: every site shows the former
C24_Witness ==
    LET d == logs["k1"].doc
    IN /\ \A site \in Sites : display[site].shown
       /\ ~d.content.present
       /\ d.reasoning = JsUndefined
       /\ d.summary.reasoning = JsString(<<"summary text">>)
       /\ d.decision_agent.present
       /\ d.decision_agent.reasoning = JsString(<<"agent text">>)
       /\ d.explanation = JsString(<<"top explanation">>)
       /\ display["detail"].reasoning = JsString(<<"summary text">>)

\* C25: a resolve whose log patch step ends (Decision Log read, parse or
\* write-back, failed or not) goes on to the next patch step or to the
\* feedback write: it never answers without having attempted the feedback
\* write.
C25_LogFailureStillLearns ==
    [][\A r \in Slots :
          (pc[r] \in {"s3get", "s3put"} /\ pc'[r] # pc[r])
          => pc'[r] \in {"s3put", "learn"}]_vars

\* C26: a partition scan keeps listing a prefix while the store reports a
\* further page and leaves the prefix only at a page the store reports as
\* the last; it runs over no key twice in one request, a request answered
\* with success has run over every .json key of every prefix, and every
\* scan that started is answered.
C26_ScanFollowsTokens ==
    /\ [][scanPc = "page" /\ scanPc' = "list"
            => IF page.IsTruncated
               THEN /\ prefixIdx' = prefixIdx
                    /\ continuationToken' = page.NextContinuationToken
               ELSE prefixIdx' = prefixIdx + 1]_vars
    /\ [](\A i \in 1..Len(visited), j \in 1..Len(visited) :
            i # j => visited[i] # visited[j])
    /\ [](scanPc = "done" /\ scanResp.success
            => \A i \in 1..Len(prefixes) :
                 \A k \in {KeysOfDay(prefixes[i])[n] :
                              n \in 1..Len(KeysOfDay(prefixes[i]))} :
                    endsWithJson(k)
                    => \E n \in 1..Len(visited) : visited[n] = k)
    /\ ((scanPc \in {"list", "page"}) ~> (scanPc = "done"))

\* a history scan answered with success after it listed a prefix in more
\* than one page and went on to a second prefix
C26_Witness ==
    /\ scanPc = "done" /\ scanResp.success
    /\ scanReq.endpoint = "history"
    /\ Len(prefixes) = 2
    /\ Len(KeysOfDay(prefixes[1])) > PageSize
    /\ Len(visited) = Len(KeysOfDay(prefixes[1]))

\* C27: the steps of one resolve run in the order queue read, queue update,
\* log read, log write, feedback write; the Decision Log changes only by the
\* log write of a request, and the Feedback store only by the feedback write
\* of a request, whose queue item is resolved by then; a request whose queue
\* read or queue update fails leaves both stores as they were.
C27_QueueFirst ==
    /\ [][LET order == [idle |-> 0, get |-> 1, update |-> 2, s3get |-> 3,
                        s3put |-> 4, learn |-> 5, done |-> 6]
          IN \A r \in Slots :
                pc'[r] # pc[r]
                => \/ order[pc[r]] < order[pc'[r]]
                   \/ pc[r] = "done" /\ pc'[r] = "idle"]_vars
    /\ [][logs' # logs
            => \E r \in Slots :
                 /\ pc[r] = "s3put" /\ pc'[r] = "learn"
                 /\ queue[req[r].id].status = "resolved"]_vars
    /\ [][feedback' # feedback
            => \E r \in Slots :
                 /\ pc[r] = "learn" /\ pc'[r] = "done"
                 /\ queue[req[r].id].status = "resolved"]_vars
    /\ [][\A r \in Slots :
             (pc[r] \in {"get", "update"} /\ pc'[r] = "done")
             => UNCHANGED <<logs, feedback>>]_vars

\* one request stopped at its queue update, and another ran all five steps
C27_Witness ==
    \E r \in Slots, o \in Slots :
       /\ pc[r] = "done" /\ resp[r].details = "queue update failed"
       /\ pc[o] = "done" /\ resp[o].status = 200 /\ resp[o].s3Updated
       /\ feedback # {}
       /\ queue[req[r].id].status = "pending"

\* C28: when two requests for the same id with different verdicts have both
\* been answered 200 with the log patched, the verdict, actor and resolved_ts
\* of the queue item equal the verdict, actor and ts of the record's hitl.
C28_ConcurrentResolvesAgree ==
    \A r \in Slots, o \in Slots :
       (/\ r # o
        /\ pc[r] = "done" /\ resp[r].status = 200 /\ resp[r].s3Updated
        /\ pc[o] = "done" /\ resp[o].status = 200 /\ resp[o].s3Updated
        /\ req[r].id = req[o].id
        /\ req[r].verdict # req[o].verdict)
       => LET it == queue[req[r].id]
              h == logs[it.log_key].doc.hitl
          IN /\ it.verdict = h.verdict
             /\ it.actor = h.actor
             /\ it.resolved_ts = h.ts

====
